---- MODULE Spec2Model ----
(***************************************************************************)
(* OmniAPI MCP server (src/omniapi.js): the tool-call handler of            *)
(* SimpleMCPServer, its registry `apis` and the outbound HTTP calls of      *)
(* call_api and discover_api.                                               *)
(*                                                                          *)
(* Strings that the code takes apart (a base URL, an endpoint) are          *)
(* sequences of string fragments; concatenation is \o.  A text is a         *)
(* sequence of lines and a line is a sequence of fragments.  An optional    *)
(* argument is <<>> (undefined) or <<v>>.  A JavaScript object with string  *)
(* keys is a function whose domain is its key set.                          *)
(*                                                                          *)
(* add_api, list_apis, an unknown tool and every call that throws before    *)
(* its first await run to completion in one step.  call_api and             *)
(* discover_api on a registered API suspend on fetch; `inv` is the          *)
(* suspended invocation and `fetching` its outstanding request.  Suspended  *)
(* invocations never read `apis` again after their first step, so one       *)
(* suspended invocation interleaved with the run-to-completion calls shows  *)
(* every interaction through the registry.                                  *)
(***************************************************************************)
EXTENDS Integers, Sequences, FiniteSets, TLC

VARIABLES
  apis,      \* this.apis: name -> [baseUrl, headers]
  inv,       \* the suspended invocation: its tool, arguments and locals
  fetching,  \* the request of the fetch it awaits
  reply,     \* the result handed to the host and not yet read by it
  lastAdd,   \* history: name -> arguments of the latest add_api that stored it
  hist       \* history of the suspended invocation: the entry registered
             \* when it started, the requests sent, the first candidate
             \* that answered with documentation, the endpoints that
             \* answered HEAD, whether any fetch or body read raised

vars == <<apis, inv, fetching, reply, lastAdd, hist>>

----------------------------------------------------------------------------
(* Bound of the model *)

\* longest run of trailing slashes on a base URL given to add_api
MaxTrail == 2

----------------------------------------------------------------------------
(* Inputs *)

Names == {"x", "y"}

Slashes(k) == [i \in 1..k |-> "/"]

\* the baseUrl argument of add_api: undefined, or a URL with no trailing
\* slash, with a run of MaxTrail of them, with an inner slash and one more
UrlArgs ==
  { <<>>,
    << <<"h">> >>,
    << <<"h">> \o Slashes(MaxTrail) >>,
    << <<"h", "/", "g">> \o Slashes(1) >> }

OneUrlArg == { << <<"h">> \o Slashes(1) >> }

EmptyObj == [k \in {} |-> ""]

\* the headers argument of add_api: undefined or an object
HeaderArgs ==
  { <<>>,
    << [k \in {"Content-Type", "Authorization"} |->
          IF k = "Content-Type" THEN "text/plain" ELSE "token"] >> }

NoHeaderArgs == { <<>> }

\* the endpoint argument of call_api: undefined, without and with the slash
EndpointArgs == { <<>>, << <<"users">> >>, << <<"/", "users">> >> }

BasicEndpointArgs == { <<>>, << <<"/", "users">> >> }

\* the method argument of call_api: undefined or one of the enum
MethodArgs == { <<>>, <<"POST">> }

NoMethodArg == { <<>> }

UnknownTools == {"remove_api"}

----------------------------------------------------------------------------
(* Helpers that stand for JavaScript built-ins *)

\* String.prototype.replace(/\/+$/, ''): the match starts at the leftmost
\* index from which the rest of the string is one or more slashes.
MatchStarts(s) == {i \in 1..Len(s) : \A j \in i..Len(s) : s[j] = "/"}

Min(S) == CHOOSE m \in S : \A n \in S : m <= n

\* variant: replace(/\/$/, ''), one slash only
StripOne(s) ==
  IF Len(s) > 0 /\ s[Len(s)] = "/" THEN SubSeq(s, 1, Len(s) - 1) ELSE s

StripTrailing(s) ==
  IF MatchStarts(s) = {} THEN s ELSE SubSeq(s, 1, Min(MatchStarts(s)) - 1)

\* object spread { ...a, ...b }: keys of b win
Spread(a, b) ==
  [k \in (DOMAIN a) \cup (DOMAIN b) |-> IF k \in DOMAIN b THEN b[k] ELSE a[k]]

DefaultHeaders == [k \in {"Content-Type"} |-> "application/json"]

\* `headers = {}` in the destructuring: the default applies to undefined
HeadersOrDefault(h) == IF h = <<>> THEN EmptyObj ELSE h[1]

----------------------------------------------------------------------------
(* Handler results *)

NoReply == [tool |-> "", api |-> "", outcome |-> "none", isError |-> FALSE,
            text |-> <<>>]

Returned(lines) == [threw |-> FALSE, message |-> <<>>, text |-> lines]

Thrown(msg) == [threw |-> TRUE, message |-> msg, text |-> <<>>]

\* variant: no catch, the handler's promise rejects
Rethrow(tool, api, r) ==
  IF r.threw
    THEN [tool |-> tool, api |-> api, outcome |-> "rejected", isError |-> FALSE,
          text |-> <<>>]
    ELSE [tool |-> tool, api |-> api, outcome |-> "result", isError |-> FALSE,
          text |-> r.text]

\* the try/catch of the CallToolRequestSchema handler
HandlerBoundary(tool, api, r) ==
  IF r.threw
    THEN [tool |-> tool, api |-> api, outcome |-> "result", isError |-> TRUE,
          text |-> << <<"Error: ">> \o r.message >>]
    ELSE [tool |-> tool, api |-> api, outcome |-> "result", isError |-> FALSE,
          text |-> r.text]

TypeErrorMessage == <<"Cannot read properties of undefined">>

----------------------------------------------------------------------------
(* Registry *)

Has(name) == name \in DOMAIN apis

\* variant: this.apis = new Map([[name, entry]])
MapReplace(m, name, entry) == [n \in {name} |-> entry]

\* Map.prototype.set
MapSet(m, name, entry) ==
  [n \in (DOMAIN m) \cup {name} |-> IF n = name THEN entry ELSE m[n]]

\* variant: the headers of the entry already stored are spread in first
MergedEntry(old, name, cleanUrl, headers) ==
  [baseUrl |-> cleanUrl,
   headers |-> Spread(IF name \in DOMAIN old THEN old[name].headers
                                              ELSE DefaultHeaders,
                      Spread(DefaultHeaders, headers))]

\* the object literal of addApi
NewEntry(old, name, cleanUrl, headers) ==
  [baseUrl |-> cleanUrl, headers |-> Spread(DefaultHeaders, headers)]

NoEntry == [baseUrl |-> <<>>, headers |-> EmptyObj]

Idle == [tool |-> "", api |-> "", apiConfig |-> NoEntry, round |-> "",
         idx |-> 0, discovered |-> <<>>]

NoRequest == [method |-> "", url |-> <<>>, headers |-> EmptyObj,
              body |-> FALSE]

NoHist == [entry |-> NoEntry, probes |-> <<>>, docHit |-> 0,
           okHeads |-> <<>>, threw |-> FALSE]

Init ==
  /\ apis = EmptyObj
  /\ inv = Idle
  /\ fetching = NoRequest
  /\ reply = NoReply
  /\ lastAdd = EmptyObj
  /\ hist = NoHist

AddedText(name, cleanUrl) ==
  << <<"API \"", name, "\" added successfully!">>,
     <<"URL: ">> \o cleanUrl,
     <<>>,
     <<"You can now use:">>,
     <<"- call_api to make calls">>,
     <<"- discover_api to discover endpoints">> >>

\* add_api: the whole of addApi behind the handler boundary
AddApi(U, H) ==
  \E name \in Names, baseUrl \in U, headers \in H :
    /\ reply = NoReply
    /\ IF baseUrl = <<>>
         THEN \* baseUrl.replace throws a TypeError before the map is touched
              /\ reply' = HandlerBoundary("add_api", "", Thrown(TypeErrorMessage))
              /\ UNCHANGED <<apis, lastAdd>>
         ELSE LET cleanUrl == StripTrailing(baseUrl[1]) IN
              /\ apis' = MapSet(apis, name,
                                NewEntry(apis, name, cleanUrl,
                                         HeadersOrDefault(headers)))
              /\ lastAdd' = MapSet(lastAdd, name,
                                   [baseUrl |-> baseUrl[1], headers |-> headers])
              /\ reply' = HandlerBoundary("add_api", "",
                                          Returned(AddedText(name, cleanUrl)))
    /\ UNCHANGED <<inv, fetching, hist>>

NameOrder == <<"x", "y">>

RECURSIVE ListLines(_)
ListLines(names) ==
  IF names = <<>> THEN <<>>
  ELSE (IF Has(Head(names))
          THEN << <<"- ", Head(names), ": ">> \o apis[Head(names)].baseUrl >>
          ELSE <<>>) \o ListLines(Tail(names))

\* list_apis: the whole of listApis behind the handler boundary.  The lines
\* follow NameOrder; the Map's insertion order is not part of the state.
ListApis ==
  /\ reply = NoReply
  /\ reply' = HandlerBoundary("list_apis", "",
       IF Cardinality(DOMAIN apis) = 0
         THEN Returned(<< <<"No APIs configured yet.">>, <<>>,
                          <<"Use add_api to add an API.">> >>)
         ELSE Returned(<< <<"Configured APIs:">>, <<>> >> \o ListLines(NameOrder)))
  /\ UNCHANGED <<apis, inv, fetching, lastAdd, hist>>

\* the default branch of the switch
UnknownTool ==
  \E name \in UnknownTools :
    /\ reply = NoReply
    /\ reply' = HandlerBoundary(name, "", Thrown(<<"Unknown tool: ", name>>))
    /\ UNCHANGED <<apis, inv, fetching, lastAdd, hist>>

----------------------------------------------------------------------------
(* call_api *)

\* variant: the message of discoverApi
NotFoundNoHint(api) == <<"API \"", api, "\" not found.">>

CallNotFound(api) ==
  <<"API \"", api, "\" not found.", " Use list_apis to see available APIs.">>

StartsWithSlash(e) == Len(e) > 0 /\ e[1] = "/"

\* the URL of callApi: base, endpoint with a leading slash, query string
CallUrl(cfg, endpoint, params) ==
  cfg.baseUrl
    \o (IF StartsWithSlash(endpoint) THEN endpoint ELSE <<"/">> \o endpoint)
    \o (IF params THEN <<"?", "q=1">> ELSE <<>>)

CallRequest(cfg, endpoint, method, body, params) ==
  [method |-> method,
   url |-> CallUrl(cfg, endpoint, params),
   headers |-> cfg.headers,
   body |-> body /\ method \in {"POST", "PUT", "PATCH"}]

\* call_api up to its first await: the registry check, the URL and the fetch
CallApi(E, M, B) ==
  \E api \in Names, endpoint \in E, method \in M, body \in B, params \in B :
    IF ~Has(api)
      THEN /\ reply = NoReply
           /\ reply' = HandlerBoundary("call_api", api, Thrown(CallNotFound(api)))
           /\ UNCHANGED <<apis, inv, fetching, lastAdd, hist>>
    ELSE IF endpoint = <<>>
      THEN \* endpoint.startsWith throws a TypeError before any fetch
           /\ reply = NoReply
           /\ reply' = HandlerBoundary("call_api", api, Thrown(TypeErrorMessage))
           /\ UNCHANGED <<apis, inv, fetching, lastAdd, hist>>
    ELSE LET req == CallRequest(apis[api], endpoint[1],
                                IF method = <<>> THEN "GET" ELSE method[1],
                                body, params) IN
           /\ inv = Idle
           /\ inv' = [Idle EXCEPT !.tool = "call_api", !.api = api,
                                  !.apiConfig = apis[api], !.round = "fetch"]
           /\ fetching' = req
           /\ hist' = [NoHist EXCEPT !.entry = apis[api], !.probes = <<req>>]
           /\ UNCHANGED <<apis, reply, lastAdd>>

JsonTexts == {"{\"a\":1}"}

BodyTexts == JsonTexts \cup {"not json"}

\* what fetch and response.text() can do to call_api
BasicCallResponses ==
  { [threw |-> TRUE, status |-> 0, readable |-> FALSE, bodyText |-> ""],
    [threw |-> FALSE, status |-> 200, readable |-> TRUE, bodyText |-> "not json"] }

CallResponses ==
  {[threw |-> TRUE, status |-> 0, readable |-> FALSE, bodyText |-> ""]}
    \cup [threw : {FALSE}, status : {200, 404}, readable : {TRUE},
          bodyText : BodyTexts]
    \cup {[threw |-> FALSE, status |-> 200, readable |-> FALSE, bodyText |-> ""]}

\* JSON.parse with the catch that falls back to the raw text; the parsed
\* value is printed as JSON, the raw text as a JSON string
ResponseData(t) ==
  IF t \in JsonTexts THEN <<"\"data\": ", t>> ELSE <<"\"data\": ", "\"", t, "\"">>

\* call_api after fetch settles
CallApiRespond(R) ==
  \E resp \in R :
    /\ inv.tool = "call_api" /\ inv.round = "fetch"
    /\ reply = NoReply
    /\ reply' = HandlerBoundary("call_api", inv.api,
         IF resp.threw
           THEN Thrown(<<"request to ">> \o fetching.url \o <<" failed">>)
         ELSE IF ~resp.readable
           THEN Thrown(<<"Premature close">>)
         ELSE Returned(<< <<"Response from API \"", inv.api, "\":">>, <<>>,
                          <<"\"status\": ", ToString(resp.status)>>,
                          ResponseData(resp.bodyText) >>))
    /\ inv' = [inv EXCEPT !.round = "returned"]
    /\ fetching' = NoRequest
    /\ hist' = [hist EXCEPT !.threw = resp.threw \/ ~resp.readable]
    /\ UNCHANGED <<apis, lastAdd>>

----------------------------------------------------------------------------
(* discover_api *)

CommonPaths ==
  << "/swagger.json", "/openapi.json", "/api-docs", "/docs",
     "/swagger/v1/swagger.json", "/v1/swagger.json",
     "/.well-known/openapi.json" >>

CommonEndpoints == << "/", "/api", "/health", "/status", "/users", "/posts" >>

DiscoverNotFound(api) == <<"API \"", api, "\" not found.">>

\* A response to a documentation probe.  body.json tells how the body
\* parses: "invalid" (response.json() rejects), "null" (the JSON value null)
\* or "object".  For an object, swagger and openapi are "absent", "falsy"
\* (null, false, 0, "") or "truthy"; paths is "absent", "falsy", "map" (every
\* path item is an object, here {"/a": {"get": {}}}) or "nullitem" (a path
\* item is null, here {"/a": null}).
NoBody == [json |-> "invalid", paths |-> "absent", swagger |-> "absent",
           openapi |-> "absent"]

FetchFailed == [threw |-> TRUE, status |-> 0, body |-> NoBody]

GoodDoc == [threw |-> FALSE, status |-> 200,
            body |-> [json |-> "object", paths |-> "map", swagger |-> "absent",
                      openapi |-> "truthy"]]

BasicDocResponses == {FetchFailed, GoodDoc}

DocResponses ==
  {FetchFailed, [threw |-> FALSE, status |-> 404, body |-> NoBody]}
    \cup [threw : {FALSE}, status : {200},
          body : {NoBody, [NoBody EXCEPT !.json = "null"]}
                   \cup [json : {"object"},
                         paths : {"absent", "falsy", "map", "nullitem"},
                         swagger : {"absent", "falsy", "truthy"},
                         openapi : {"absent", "falsy", "truthy"}]]

HeadFailed == [threw |-> TRUE, status |-> 0]

BasicHeadResponses == {HeadFailed}

HeadResponses == {HeadFailed} \cup [threw : {FALSE}, status : {200, 404}]

\* response.ok of node-fetch
Ok(resp) == resp.status >= 200 /\ resp.status < 300

Truthy(v) == v \notin {"absent", "falsy"}

\* response.ok, and the body is a JSON object that passes
\* `doc.paths || doc.swagger || doc.openapi`
IsDocumentation(resp) ==
  /\ ~resp.threw /\ Ok(resp) /\ resp.body.json = "object"
  /\ \/ Truthy(resp.body.paths)
     \/ Truthy(resp.body.swagger)
     \/ Truthy(resp.body.openapi)

\* the document passes the `doc.paths || doc.swagger || doc.openapi` test
\* and Object.keys(doc.paths[endpoint]) then throws on a null path item
Malformed(resp) ==
  ~resp.threw /\ Ok(resp) /\ resp.body.json = "object"
    /\ resp.body.paths = "nullitem"

\* the probe ends in the catch block: fetch rejects, response.json() rejects,
\* doc.paths of null, or Object.keys of a null path item
Raises(resp) ==
  \/ resp.threw
  \/ Ok(resp) /\ resp.body.json \in {"invalid", "null"}
  \/ Malformed(resp)

FoundLine(path) == <<"Documentation found at: ", path>>

EndpointsTitle == <<"Available endpoints:">>

NotFoundLine == <<"OpenAPI documentation not found.">>

TestingLine == <<"Testing common endpoints...">>

OkLine(endpoint, status) == <<"OK ", endpoint, " (", ToString(status), ")">>

TipLine == <<"Tip: Check the API documentation for specific endpoints.">>

\* variant: the catch block returns what was discovered so far
DocIterationReturnsOnFailure(discovered, path, resp) ==
  IF resp.threw
    THEN [returns |-> TRUE, discovered |-> discovered]
  ELSE IF ~Ok(resp) \/ resp.body.json # "object"
            \/ ~(Truthy(resp.body.paths) \/ Truthy(resp.body.swagger)
                   \/ Truthy(resp.body.openapi))
    THEN [returns |-> FALSE, discovered |-> discovered]
  ELSE [returns |-> resp.body.paths # "nullitem",
        discovered |-> discovered \o <<FoundLine(path), <<>> >>]

\* One pass through the body of the first loop with the response `resp` to
\* the probe of `path`: whether the function returns, and `discovered`
\* afterwards.  Everything that throws inside the try block lands in the
\* empty catch, with the lines appended so far kept.
DocIteration(discovered, path, resp) ==
  IF resp.threw \/ ~Ok(resp) \/ resp.body.json # "object"
    THEN [returns |-> FALSE, discovered |-> discovered]
  ELSE IF ~(Truthy(resp.body.paths) \/ Truthy(resp.body.swagger)
              \/ Truthy(resp.body.openapi))
    THEN [returns |-> FALSE, discovered |-> discovered]
  ELSE LET found == discovered \o <<FoundLine(path), <<>> >> IN
       IF ~Truthy(resp.body.paths)
         THEN [returns |-> TRUE, discovered |-> found]
       ELSE IF resp.body.paths = "nullitem"
         THEN [returns |-> FALSE, discovered |-> found \o <<EndpointsTitle>>]
       ELSE [returns |-> TRUE,
             discovered |-> found \o <<EndpointsTitle, <<"- ", "/a", " [", "GET", "]">> >>]

\* variant: this.apis.get(api) is read again for every probe
DocRequestFromRegistry(cfg, i) ==
  LET now == IF inv.api \in DOMAIN apis THEN apis[inv.api] ELSE cfg IN
  [method |-> "GET", url |-> now.baseUrl \o <<CommonPaths[i]>>,
   headers |-> now.headers, body |-> FALSE]

DocRequest(cfg, i) ==
  [method |-> "GET", url |-> cfg.baseUrl \o <<CommonPaths[i]>>,
   headers |-> cfg.headers, body |-> FALSE]

HeadRequest(cfg, i) ==
  [method |-> "HEAD", url |-> cfg.baseUrl \o <<CommonEndpoints[i]>>,
   headers |-> cfg.headers, body |-> FALSE]

\* discover_api up to its first await: the registry check and the first probe
DiscoverApi ==
  \E api \in Names :
    IF ~Has(api)
      THEN /\ reply = NoReply
           /\ reply' = HandlerBoundary("discover_api", api,
                                       Thrown(DiscoverNotFound(api)))
           /\ UNCHANGED <<apis, inv, fetching, lastAdd, hist>>
      ELSE /\ inv = Idle
           /\ inv' = [tool |-> "discover_api", api |-> api,
                      apiConfig |-> apis[api], round |-> "docs", idx |-> 1,
                      discovered |->
                        << <<"Trying to discover endpoints for API \"", api,
                             "\"...">>, <<>> >>]
           /\ fetching' = DocRequest(apis[api], 1)
           /\ hist' = [NoHist EXCEPT !.entry = apis[api],
                                     !.probes = <<DocRequest(apis[api], 1)>>]
           /\ UNCHANGED <<apis, reply, lastAdd>>

\* the first loop of discoverApi, from one response to the next await or to
\* the return
DiscoverDocProbe(R) ==
  \E resp \in R :
    /\ inv.tool = "discover_api" /\ inv.round = "docs"
    /\ LET it == DocIteration(inv.discovered, CommonPaths[inv.idx], resp)
           seen == [hist EXCEPT
                      !.docHit = IF hist.docHit = 0 /\ IsDocumentation(resp)
                                   THEN inv.idx ELSE @,
                      !.threw = @ \/ Raises(resp)]
       IN
       IF it.returns
         THEN /\ reply = NoReply
              /\ reply' = HandlerBoundary("discover_api", inv.api,
                                          Returned(it.discovered))
              /\ inv' = [inv EXCEPT !.round = "returned",
                                    !.discovered = it.discovered]
              /\ fetching' = NoRequest
              /\ hist' = seen
       ELSE IF inv.idx < Len(CommonPaths)
         THEN /\ inv' = [inv EXCEPT !.idx = @ + 1, !.discovered = it.discovered]
              /\ fetching' = DocRequest(inv.apiConfig, inv.idx + 1)
              /\ hist' = [seen EXCEPT !.probes = Append(@, fetching')]
              /\ UNCHANGED reply
       ELSE /\ inv' = [inv EXCEPT !.round = "endpoints", !.idx = 1,
                         !.discovered = it.discovered
                            \o <<NotFoundLine, <<>>, TestingLine, <<>> >>]
            /\ fetching' = HeadRequest(inv.apiConfig, 1)
            /\ hist' = [seen EXCEPT !.probes = Append(@, fetching')]
            /\ UNCHANGED reply
    /\ UNCHANGED <<apis, lastAdd>>

\* variant: the "not found" line is dropped once an endpoint has answered
FinalTextQuiet(discovered) ==
  IF \E i \in 1..Len(discovered) :
       Len(discovered[i]) > 0 /\ discovered[i][1] = "OK "
    THEN SelectSeq(discovered, LAMBDA l : l # NotFoundLine) \o << <<>>, TipLine >>
    ELSE discovered \o << <<>>, TipLine >>

\* the text of the last return of discoverApi
FinalText(discovered) == discovered \o << <<>>, TipLine >>

\* variant: only the first endpoint that answers is listed
HeadIterationStopAtFirst(discovered, endpoint, resp) ==
  IF ~resp.threw /\ Ok(resp) /\ ~(\E i \in 1..Len(discovered) :
                                   Len(discovered[i]) > 0 /\ discovered[i][1] = "OK ")
    THEN Append(discovered, OkLine(endpoint, resp.status))
    ELSE discovered

\* one pass through the body of the second loop: `discovered` afterwards
HeadIteration(discovered, endpoint, resp) ==
  IF ~resp.threw /\ Ok(resp)
    THEN Append(discovered, OkLine(endpoint, resp.status))
    ELSE discovered

\* the second loop of discoverApi, from one response to the next await or to
\* the return
DiscoverEndpointProbe(R) ==
  \E resp \in R :
    /\ inv.tool = "discover_api" /\ inv.round = "endpoints"
    /\ LET discovered == HeadIteration(inv.discovered,
                                       CommonEndpoints[inv.idx], resp)
           seen == [hist EXCEPT
                      !.okHeads = IF ~resp.threw /\ Ok(resp)
                                    THEN Append(@, CommonEndpoints[inv.idx])
                                    ELSE @,
                      !.threw = @ \/ resp.threw]
       IN
       IF inv.idx < Len(CommonEndpoints)
         THEN /\ inv' = [inv EXCEPT !.idx = @ + 1, !.discovered = discovered]
              /\ fetching' = HeadRequest(inv.apiConfig, inv.idx + 1)
              /\ hist' = [seen EXCEPT !.probes = Append(@, fetching')]
              /\ UNCHANGED reply
         ELSE /\ reply = NoReply
              /\ reply' = HandlerBoundary("discover_api", inv.api,
                                          Returned(FinalText(discovered)))
              /\ inv' = [inv EXCEPT !.round = "returned",
                                    !.discovered = discovered]
              /\ fetching' = NoRequest
              /\ hist' = seen
    /\ UNCHANGED <<apis, lastAdd>>

\* the host reads the reply; the exchange of a finished suspended invocation
\* ends with it
HostTake ==
  /\ reply # NoReply
  /\ reply' = NoReply
  /\ IF inv.round = "returned"
       THEN inv' = Idle /\ hist' = NoHist
       ELSE UNCHANGED <<inv, hist>>
  /\ UNCHANGED <<apis, fetching, lastAdd>>

Next ==
  \/ AddApi(UrlArgs, HeaderArgs)
  \/ ListApis
  \/ UnknownTool
  \/ CallApi(BasicEndpointArgs, NoMethodArg, {FALSE})
  \/ CallApiRespond(BasicCallResponses)
  \/ DiscoverApi
  \/ DiscoverDocProbe(BasicDocResponses)
  \/ DiscoverEndpointProbe(BasicHeadResponses)
  \/ HostTake

Spec == Init /\ [][Next]_vars

\* the same server with one URL to register and every answer the remote
\* side can give
ProbeNext ==
  \/ AddApi(OneUrlArg, NoHeaderArgs)
  \/ ListApis
  \/ UnknownTool
  \/ CallApi(EndpointArgs, MethodArgs, BOOLEAN)
  \/ CallApiRespond(CallResponses)
  \/ DiscoverApi
  \/ DiscoverDocProbe(DocResponses)
  \/ DiscoverEndpointProbe(HeadResponses)
  \/ HostTake

ProbeSpec == Init /\ [][ProbeNext]_vars

----------------------------------------------------------------------------
(* Properties *)

HasLine(text, line) == \E i \in 1..Len(text) : text[i] = line

IsOkLine(line) == Len(line) > 0 /\ line[1] = "OK "

IsFoundLine(line) == Len(line) > 0 /\ line[1] = "Documentation found at: "

EndsWithSlash(u) == Len(u) > 0 /\ u[Len(u)] = "/"

\* clean is raw without its trailing slashes and is otherwise raw
IsNormalized(raw, clean) ==
  /\ ~EndsWithSlash(clean)
  /\ Len(clean) <= Len(raw)
  /\ \A i \in 1..Len(raw) : IF i <= Len(clean) THEN raw[i] = clean[i]
                                                ELSE raw[i] = "/"

Discovering == inv.tool = "discover_api"

DiscoverReturned == Discovering /\ inv.round = "returned"

\* the path of the i-th probe of a discover_api invocation
ProbePath(i) ==
  IF i <= Len(CommonPaths) THEN CommonPaths[i]
                           ELSE CommonEndpoints[i - Len(CommonPaths)]

AllProbes == Len(CommonPaths) + Len(CommonEndpoints)

\* C1: every reply of the handler is a result with a text; an unknown tool,
\* an unregistered API and a failed transport give a result whose text
\* starts with "Error: " and whose isError flag is set; the handler never
\* rejects.
EveryCallEndsInAResult ==
  reply # NoReply =>
    /\ reply.outcome = "result"
    /\ Len(reply.text) > 0
    /\ reply.isError <=> (Len(reply.text[1]) > 0 /\ reply.text[1][1] = "Error: ")
    /\ reply.tool \notin {"add_api", "list_apis", "call_api", "discover_api"}
         => reply.isError
    /\ (reply.tool \in {"call_api", "discover_api"} /\ reply.api \notin DOMAIN apis)
         => reply.isError
    /\ (inv.tool = "call_api" /\ inv.round = "returned" /\ hist.threw)
         => reply.isError

TransportFailureAnswered ==
  /\ inv.tool = "call_api" /\ inv.round = "returned" /\ hist.threw
  /\ reply.isError /\ reply.outcome = "result"

\* C2: call_api with a name that is not registered answers, in that step,
\* with the "not found" error that names list_apis, sends no request and
\* changes nothing else; no suspended call_api is for an unregistered name.
CallOfUnregisteredApi ==
  /\ [](inv.tool = "call_api" => inv.api \in DOMAIN apis)
  /\ [][(reply = NoReply /\ reply' # NoReply /\ reply'.tool = "call_api"
           /\ reply'.api \notin DOMAIN apis)
        => /\ reply'.isError
           /\ reply'.text =
                << <<"Error: ", "API \"", reply'.api, "\" not found.",
                     " Use list_apis to see available APIs.">> >>
           /\ fetching' = fetching
           /\ hist' = hist
           /\ inv' = inv
           /\ apis' = apis]_vars

UnregisteredCallAnswered ==
  /\ reply.tool = "call_api" /\ reply.api \notin DOMAIN apis
  /\ fetching # NoRequest

\* C3: the registry has one entry for each name that add_api was called
\* with, and the entry comes from the latest such call alone: its baseUrl is
\* that call's baseUrl normalized, its headers are Content-Type:
\* application/json overlaid by that call's headers and nothing else.
LastWriteWins ==
  /\ DOMAIN apis = DOMAIN lastAdd
  /\ \A n \in DOMAIN apis :
       LET given == IF lastAdd[n].headers = <<>> THEN EmptyObj
                                                 ELSE lastAdd[n].headers[1]
       IN
       /\ IsNormalized(lastAdd[n].baseUrl, apis[n].baseUrl)
       /\ DOMAIN apis[n].headers = {"Content-Type"} \cup DOMAIN given
       /\ \A k \in DOMAIN apis[n].headers :
            apis[n].headers[k] = IF k \in DOMAIN given THEN given[k]
                                                       ELSE "application/json"

\* a suspended discover_api still holds the entry with Authorization that a
\* later add_api without headers has replaced
EntryOverwritten ==
  /\ Discovering /\ inv.api \in DOMAIN apis
  /\ "Authorization" \in DOMAIN inv.apiConfig.headers
  /\ DOMAIN apis[inv.api].headers = {"Content-Type"}
  /\ apis[inv.api].baseUrl # inv.apiConfig.baseUrl

\* C8: no stored baseUrl ends with a slash, and each is the baseUrl given to
\* add_api with its trailing slashes removed and nothing else changed.
StoredBaseUrlsStripped ==
  \A n \in DOMAIN apis :
    /\ ~EndsWithSlash(apis[n].baseUrl)
    /\ n \in DOMAIN lastAdd
    /\ \E k \in 0..Len(lastAdd[n].baseUrl) :
         lastAdd[n].baseUrl = apis[n].baseUrl \o Slashes(k)

RunOfSlashesStripped ==
  \E n \in DOMAIN apis :
    /\ n \in DOMAIN lastAdd
    /\ Len(lastAdd[n].baseUrl) - Len(apis[n].baseUrl) >= 2
    /\ \E m \in DOMAIN apis : Len(apis[m].baseUrl) = 3

\* C9: a registered name stays registered, and the registry changes only in
\* a step in which add_api answers with success.
RegistryOnlyGrowsByAdd ==
  [][/\ \A n \in DOMAIN apis : n \in DOMAIN apis'
     /\ apis' # apis
          => (reply = NoReply /\ reply'.tool = "add_api" /\ ~reply'.isError)]_vars

RegistryKeptByOtherTools ==
  /\ DiscoverReturned /\ ~reply.isError
  /\ Cardinality(DOMAIN apis) = 2

\* C10: every probe of a discover_api invocation goes to the base URL, and
\* carries the headers, of the entry that was registered when it started.
ProbesUseEntryReadAtStart ==
  Discovering =>
    \A i \in 1..Len(hist.probes) :
      /\ hist.probes[i].url = hist.entry.baseUrl \o <<ProbePath(i)>>
      /\ hist.probes[i].headers = hist.entry.headers

ProbingAfterOverwrite ==
  /\ Discovering /\ inv.round = "endpoints"
  /\ inv.api \in DOMAIN apis
  /\ apis[inv.api].baseUrl # hist.entry.baseUrl
  /\ apis[inv.api].headers # hist.entry.headers

\* C4: the documentation candidates are probed in the fixed order, and once
\* a candidate has answered with a successful status and a JSON body that
\* has a paths, swagger or openapi key (with a value that the code's test
\* takes as present), the invocation has returned, reports that candidate
\* and has sent no further probe.
FirstDocumentationMatchStops ==
  Discovering =>
    /\ \A i \in 1..Len(hist.probes) :
         i <= Len(CommonPaths) =>
           hist.probes[i] = [method |-> "GET",
                             url |-> hist.entry.baseUrl \o <<CommonPaths[i]>>,
                             headers |-> hist.entry.headers, body |-> FALSE]
    /\ hist.docHit # 0 =>
         /\ inv.round = "returned"
         /\ Len(hist.probes) = hist.docHit
         /\ HasLine(reply.text, FoundLine(CommonPaths[hist.docHit]))

\* C5: when no documentation candidate ends the invocation, the six fallback
\* paths are probed with HEAD, in order, and the result lists exactly the
\* ones that answered with a successful status.
FallbackProbesAllListed ==
  Discovering =>
    /\ \A i \in 1..Len(hist.probes) :
         i > Len(CommonPaths) =>
           hist.probes[i] =
             [method |-> "HEAD",
              url |-> hist.entry.baseUrl
                        \o <<CommonEndpoints[i - Len(CommonPaths)]>>,
              headers |-> hist.entry.headers, body |-> FALSE]
    /\ (inv.round = "returned"
          /\ (hist.docHit = 0 \/ HasLine(reply.text, NotFoundLine)))
         => /\ Len(hist.probes) = AllProbes
            /\ SelectSeq(reply.text, IsOkLine)
                 = [j \in 1..Len(hist.okHeads) |-> OkLine(hist.okHeads[j], 200)]

SomeFallbackPathsListed ==
  /\ DiscoverReturned /\ HasLine(reply.text, NotFoundLine)
  /\ Len(hist.okHeads) = 2 /\ hist.threw
  /\ hist.okHeads[1] = "/api"

\* C6 as stated: a result that reads "documentation not found" comes with no
\* probe of either round having confirmed anything.
UndiscoveredOnlyIfNothingConfirmed ==
  (DiscoverReturned /\ HasLine(reply.text, NotFoundLine))
    => /\ hist.okHeads = <<>>
       /\ ~(\E i \in 1..Len(reply.text) : IsFoundLine(reply.text[i]))

\* C6 amended: the result reads "documentation not found" exactly when the
\* invocation went on to the fallback round, whatever the fallback probes
\* answered; it always does when no candidate answered with documentation.
UndiscoveredIffFallbackRan ==
  DiscoverReturned =>
    /\ HasLine(reply.text, NotFoundLine) <=> Len(hist.probes) > Len(CommonPaths)
    /\ hist.docHit = 0 => HasLine(reply.text, NotFoundLine)

UndiscoveredWithReachablePaths ==
  /\ DiscoverReturned /\ HasLine(reply.text, NotFoundLine)
  /\ hist.okHeads # <<>> /\ hist.docHit = 0

\* C7: a probe that ends in an exception is no match and the next probe is
\* sent; discover_api on a registered API returns a result that is not an
\* error, and it returns before the last probe only with a documentation
\* report for the candidate probed last.
ProbeFailuresSwallowed ==
  Discovering =>
    /\ inv.round # "returned" =>
         /\ fetching # NoRequest
         /\ fetching = hist.probes[Len(hist.probes)]
         /\ Len(hist.probes) = inv.idx
              + (IF inv.round = "endpoints" THEN Len(CommonPaths) ELSE 0)
    /\ inv.round = "returned" =>
         /\ reply.outcome = "result" /\ ~reply.isError
         /\ Len(reply.text) > 0
         /\ Len(hist.probes) < AllProbes =>
              HasLine(reply.text, FoundLine(ProbePath(Len(hist.probes))))

FoundAfterFailedProbes ==
  /\ DiscoverReturned /\ hist.threw
  /\ Len(hist.probes) = 3
  /\ ~reply.isError

====
